---- MODULE Spec2Model ----
(***************************************************************************)
(* Model of src/app.py: the POST /compare_stocks handler.                  *)
(*                                                                         *)
(* One request is followed from the arrival of its body to its response.   *)
(* The market-data client (yf.download) is an external collaborator: what  *)
(* it returns is a nondeterministic choice among raising, and tables of    *)
(* either column shape, with any subset of the value fields, with or       *)
(* without rows.                                                           *)
(*                                                                         *)
(* Numbers.  Prices are small positive integers; a missing price is NaN.   *)
(* The statistics are computed exactly: a float result v is the record     *)
(* [nan, sgn, p, q] with v = sgn * sqrt(p / q), p / q in lowest terms, so  *)
(* that comparisons with 0, 1 and 2 are exact.  Rounding of binary         *)
(* floating point is outside the model.                                    *)
(***************************************************************************)
EXTENDS Integers, Sequences, FiniteSets

\* ------------------------------------------------------------------ bounds

\* The ragged series of the model have their dates among 1 .. MaxDate.
MaxDate == 3

\* The dense series of the model have a price on every date 1 .. DenseLen.
DenseLen == 9

\* ------------------------------------------------------------- request data

Absent == "<absent>"

Tickers == {"A", "B"}

\* What the body gives for a ticker key: no key, an empty string, a ticker.
Stock1Values == {Absent, "", "A"}
Stock2Values == {Absent, ""} \cup Tickers

valid_periods ==
    {"1d", "5d", "1mo", "3mo", "6mo", "1y", "2y", "5y", "10y", "ytd", "max"}

PeriodValues == {Absent, "", "1d", "7d"}

\* A JSON object with the three keys (each possibly missing), or a body that
\* is no object: JSON null, a JSON array, or no JSON body at all.
Bodies ==
    [kind : {"object"}, stock1 : Stock1Values, stock2 : Stock2Values,
     period : PeriodValues]
    \cup [kind : {"null", "array", "absent"}, stock1 : {Absent},
          stock2 : {Absent}, period : {Absent}]

\* Python truthiness of the value data.get(key) gives: None and '' are false.
Falsy(v) == v = Absent \/ v = ""

\* --------------------------------------------------------------- price data

NaN == 0

Prices == {1, 2}

EmptySeries == [d \in {} |-> NaN]

\* A series is a function from its index (a set of dates) to a price or NaN.
RaggedSeries ==
    UNION {[idx -> Prices \cup {NaN}] : idx \in SUBSET (1 .. MaxDate)}

\* Price 1 on every date, except price 2 on at most one date k.
DenseSeries ==
    {[d \in 1 .. DenseLen |-> IF d = k THEN 2 ELSE 1] : k \in 0 .. DenseLen}

FetchableSeries == RaggedSeries \cup DenseSeries

Fields == {"Adj Close", "Close", "Volume"}

\* What yf.download hands back: an exception, or a table.  A table has flat
\* columns (one per field) or two-level columns (field x ticker); tickerKey
\* says whether the requested ticker is a key of the second level.
Raised == [kind |-> "raise"]

Tables ==
    {t \in [kind : {"table"}, multi : BOOLEAN, fields : SUBSET Fields,
            tickerKey : BOOLEAN, empty : BOOLEAN] : t.multi \/ t.tickerKey}

FetchResults == {Raised} \cup Tables

NoTable == [kind |-> "none"]

\* The rows of a column of table t.  They are part of what the client
\* returned; the model fixes them when the column is read, its only use.
ColumnRows(t) ==
    IF t.empty THEN {EmptySeries} ELSE FetchableSeries \ {EmptySeries}

\* ---------------------------------------------------------------- normalizer

SelectFieldCloseFirst(t) ==
    IF "Close" \in t.fields THEN "Close" ELSE "Adj Close"

\* Lines 30-33 and 38-41: the value field the normalizer indexes the table
\* with.  ('Adj Close' in columns.levels[0] for the two-level shape and
\* 'Adj Close' in columns for the flat one are both membership in t.fields.)
SelectField(t) == IF "Adj Close" \in t.fields THEN "Adj Close" ELSE "Close"

\* Whether the two subscripts succeed: table[field], then [ticker] for the
\* two-level shape.  A missing key raises KeyError.
HasColumn(t) == SelectField(t) \in t.fields /\ (t.multi => t.tickerKey)

\* Series.empty
SeriesEmpty(s) == DOMAIN s = {}

\* ------------------------------------------------------------------ aligner

RECURSIVE SortedSeq(_)
SortedSeq(S) ==
    IF S = {} THEN <<>>
    ELSE LET m == CHOOSE x \in S : \A y \in S : x <= y
         IN <<m>> \o SortedSeq(S \ {m})

\* pd.concat([df1, df2], axis=1): the outer join on the date index, sorted;
\* a date one side lacks gets NaN on that side.
Concat(a, b) ==
    LET idx == SortedSeq(DOMAIN a \cup DOMAIN b)
    IN [i \in 1 .. Len(idx) |->
          [date |-> idx[i],
           a |-> IF idx[i] \in DOMAIN a THEN a[idx[i]] ELSE NaN,
           b |-> IF idx[i] \in DOMAIN b THEN b[idx[i]] ELSE NaN]]

RowComplete(r) == r.a # NaN /\ r.b # NaN

RowNotAllMissing(r) == r.a # NaN \/ r.b # NaN

DropNaAll(rows) == SelectSeq(rows, RowNotAllMissing)

\* DataFrame.dropna(): a row with a missing value on either side is dropped.
DropNa(rows) == SelectSeq(rows, RowComplete)

Align(a, b) == DropNa(Concat(a, b))

FrameNeverEmpty(df) == FALSE

\* DataFrame.empty
FrameEmpty(df) == Len(df) = 0

\* --------------------------------------------------------------- statistics

RECURSIVE SumSeq(_)
SumSeq(s) == IF s = <<>> THEN 0 ELSE Head(s) + SumSeq(Tail(s))

Sq(s) == [i \in 1 .. Len(s) |-> s[i] * s[i]]

Mul(s, t) == [i \in 1 .. Len(s) |-> s[i] * t[i]]

Sign(x) == IF x > 0 THEN 1 ELSE IF x < 0 THEN -1 ELSE 0

RECURSIVE GCD(_, _)
GCD(a, b) == IF b = 0 THEN a ELSE GCD(b, a % b)

FNaN == [nan |-> TRUE, sgn |-> 0, p |-> 0, q |-> 1]

\* The float sgn * sqrt(p / q), for p >= 0 and q > 0.
Float(sgn, p, q) ==
    IF sgn = 0 \/ p = 0
    THEN [nan |-> FALSE, sgn |-> 0, p |-> 0, q |-> 1]
    ELSE LET g == GCD(p, q)
         IN [nan |-> FALSE, sgn |-> sgn, p |-> p \div g, q |-> q \div g]

FZero == Float(0, 0, 1)

\* n * n * (sum of squared deviations from the mean) of the sequence s
ScaledSS(s) == Len(s) * (Len(s) * SumSeq(Sq(s)) - SumSeq(s) * SumSeq(s))

\* Series.corr (Pearson, min_periods = 1, through numpy.corrcoef):
\*   r = cov(x, y) / sqrt(var(x) * var(y)),
\* NaN for a single row (0 / 0 degrees of freedom) and when a variance is 0.
\* With n = Len(x): n*n*cov = n * (n*Sxy - Sx*Sy), and ScaledSS for the
\* variances, so r * r = (n*Sxy - Sx*Sy)^2 * n^2 / (ScaledSS(x)*ScaledSS(y)).
Pearson(x, y) ==
    LET n == Len(x)
        c == n * SumSeq(Mul(x, y)) - SumSeq(x) * SumSeq(y)
        v == ScaledSS(x) * ScaledSS(y)
    IN IF n < 2 \/ v = 0 THEN FNaN
       ELSE Float(Sign(c), c * c * n * n, v)

\* Line 53: spread = df[stock1] - df[stock2]
Spread(x, y) == [i \in 1 .. Len(x) |-> x[i] - y[i]]

\* Line 54: (spread - spread.mean()) / spread.std(), std with ddof = 1.
\* With n = Len(s), d = n * s[i] - Sum(s) is n times the deviation and
\* std^2 = ScaledSS(s) / (n * n * (n - 1)), so z^2 = d^2 * (n - 1) / ScaledSS.
\* std is NaN for n = 1; for std = 0 every deviation is 0 and 0 / 0 is NaN.
ZScore(s) ==
    LET n == Len(s)
        ss == ScaledSS(s)
    IN [i \in 1 .. n |->
          IF n < 2 \/ ss = 0 THEN FNaN
          ELSE LET d == n * s[i] - SumSeq(s)
               IN Float(Sign(d), d * d * (n - 1), ss)]

\* Float comparisons against 2; every comparison with NaN is false.
GreaterThan2(v) == ~v.nan /\ v.sgn = 1 /\ v.p > 4 * v.q

AbsGreaterThan2(v) == ~v.nan /\ v.p > 4 * v.q

AbsAtLeast2(v) == ~v.nan /\ v.p >= 4 * v.q

\* Line 56
LatestZ(z) == IF Len(z) > 0 THEN z[Len(z)] ELSE FZero

ShortLong(s1, s2) == <<"Trade: ", "Short ", s1, ", Long ", s2>>

LongShort(s1, s2) == <<"Trade: ", "Long ", s1, ", Short ", s2>>

None == <<>>

SignalAtThreshold(latest_z, s1, s2) ==
    IF AbsAtLeast2(latest_z)
    THEN IF latest_z.sgn = 1 THEN ShortLong(s1, s2) ELSE LongShort(s1, s2)
    ELSE None

\* Lines 57-59
Signal(latest_z, s1, s2) ==
    IF AbsGreaterThan2(latest_z)
    THEN IF GreaterThan2(latest_z) THEN ShortLong(s1, s2)
         ELSE LongShort(s1, s2)
    ELSE None

CorrelationUncoerced(c) == c

\* Line 62: float(correlation) if not pd.isna(correlation) else 0.0
CorrelationField(c) == IF c.nan THEN FZero ELSE c

\* Line 63: index.strftime('%Y-%m-%d'); the dates of the model are the days
\* of January 2024.
StrfTime(d) == <<2024, 1, d>>

\* ---------------------------------------------------------------- responses

Pending == [kind |-> "pending"]

\* jsonify({'error': ...}), status
ErrorResponse(status, message) ==
    [kind |-> "error", status |-> status, error |-> message]

MissingMsg == <<"Missing stock ticker or period">>

InvalidPeriodMsg == <<"Invalid period. Use: ", valid_periods>>

NoDataMsg(s1, s2) == <<"No valid data for ", s1, " or ", s2>>

NoOverlapMsg == <<"No overlapping data after alignment">>

InternalMsg(e) == <<"Internal server error: ", e>>

\* An exception that leaves compare_stocks: Flask answers it, not the handler.
Unhandled(e) == [kind |-> "unhandled", exception |-> e]

\* Lines 52-71, for a non-empty aligned frame df with two distinct column
\* labels.
SuccessResponse(s1, s2, df) ==
    LET x == [i \in 1 .. Len(df) |-> df[i].a]
        y == [i \in 1 .. Len(df) |-> df[i].b]
        spread == Spread(x, y)
        z_score == ZScore(spread)
    IN [kind |-> "success",
        status |-> 200,
        correlation |-> CorrelationField(Pearson(x, y)),
        dates |-> [i \in 1 .. Len(df) |-> StrfTime(df[i].date)],
        stock1_prices |-> x,
        stock2_prices |-> y,
        spread |-> spread,
        z_score |-> z_score,
        signal |-> Signal(LatestZ(z_score), s1, s2)]

\* Lines 43-74.  With stock1 = stock2 line 50 gives both columns one label,
\* df[stock1] is then a two-column frame and line 52 raises, which line 72
\* catches.
Compare(s1, s2, a, b) ==
    IF SeriesEmpty(a) \/ SeriesEmpty(b)
    THEN ErrorResponse(404, NoDataMsg(s1, s2))
    ELSE LET df == Align(a, b)
         IN IF FrameEmpty(df) THEN ErrorResponse(404, NoOverlapMsg)
            ELSE IF s1 = s2 THEN ErrorResponse(500, InternalMsg("ValueError"))
            ELSE SuccessResponse(s1, s2, df)

\* -------------------------------------------------------------------- state

VARIABLES
    pc,         \* where the handler is
    body,       \* the request body
    stock1,     \* data.get('stock1')
    stock2,     \* data.get('stock2')
    period,     \* data.get('period')
    df1_raw,    \* the table the first download returned, until it is read
    df2_raw,    \* the table the second download returned, until it is read
    df1,        \* the first normalized series
    df2,        \* the second normalized series
    col1,       \* the field df1 was taken from
    col2,       \* the field df2 was taken from
    fetch_log,  \* the calls of yf.download so far: ticker and outcome
    response    \* what the request ended in

vars ==
    <<pc, body, stock1, stock2, period, df1_raw, df2_raw, df1, df2, col1,
      col2, fetch_log, response>>

Unset == "<unset>"

Init ==
    /\ pc = "get_json"
    /\ body \in Bodies
    /\ stock1 = Unset
    /\ stock2 = Unset
    /\ period = Unset
    /\ df1_raw = NoTable
    /\ df2_raw = NoTable
    /\ df1 = EmptySeries
    /\ df2 = EmptySeries
    /\ col1 = Unset
    /\ col2 = Unset
    /\ fetch_log = <<>>
    /\ response = Pending

Finish(r) == pc' = "done" /\ response' = r

\* Lines 13-16.  request.get_json() gives the parsed body; for JSON null and
\* for an array data.get raises AttributeError.  Without a JSON body
\* get_json raises an HTTP error itself or returns None, by Flask version.
\* Neither is inside the try of line 26.
GetJson ==
    /\ pc = "get_json"
    /\ \/ /\ body.kind = "object"
          /\ stock1' = body.stock1
          /\ stock2' = body.stock2
          /\ period' = body.period
          /\ pc' = "validate"
          /\ UNCHANGED response
       \/ /\ body.kind \in {"null", "array", "absent"}
          /\ Finish(Unhandled("AttributeError"))
          /\ UNCHANGED <<stock1, stock2, period>>
       \/ /\ body.kind = "absent"
          /\ Finish(Unhandled("HTTPException"))
          /\ UNCHANGED <<stock1, stock2, period>>
    /\ UNCHANGED <<body, df1_raw, df2_raw, df1, df2, col1, col2, fetch_log>>

\* Lines 20-24
Validate ==
    /\ pc = "validate"
    /\ IF Falsy(stock1) \/ Falsy(stock2) \/ Falsy(period)
       THEN Finish(ErrorResponse(400, MissingMsg))
       ELSE IF period \notin valid_periods
       THEN Finish(ErrorResponse(400, InvalidPeriodMsg))
       ELSE pc' = "fetch1" /\ UNCHANGED response
    /\ UNCHANGED <<body, stock1, stock2, period, df1_raw, df2_raw, df1, df2,
                   col1, col2, fetch_log>>

Outcome(r) ==
    IF r.kind = "raise" THEN "raise" ELSE IF r.empty THEN "empty" ELSE "rows"

Logged(ticker, r) ==
    Append(fetch_log, [ticker |-> ticker, outcome |-> Outcome(r)])

\* Line 28: yf.download(stock1, period=period); an exception goes to line 72.
Fetch1 ==
    /\ pc = "fetch1"
    /\ \E r \in FetchResults :
          /\ fetch_log' = Logged(stock1, r)
          /\ IF r.kind = "raise"
             THEN /\ Finish(ErrorResponse(500, InternalMsg("fetch failed")))
                  /\ UNCHANGED df1_raw
             ELSE /\ df1_raw' = r
                  /\ pc' = "normalize1"
                  /\ UNCHANGED response
    /\ UNCHANGED <<body, stock1, stock2, period, df2_raw, df1, df2, col1, col2>>

\* Lines 30-33; a missing key raises KeyError, which line 72 catches.
Normalize1 ==
    /\ pc = "normalize1"
    /\ IF HasColumn(df1_raw)
       THEN /\ df1' \in ColumnRows(df1_raw)
            /\ col1' = SelectField(df1_raw)
            /\ pc' = "fetch2"
            /\ UNCHANGED response
       ELSE /\ Finish(ErrorResponse(500, InternalMsg("KeyError")))
            /\ UNCHANGED <<df1, col1>>
    /\ df1_raw' = NoTable
    /\ UNCHANGED <<body, stock1, stock2, period, df2_raw, df2, col2,
                   fetch_log>>

\* Line 36
Fetch2 ==
    /\ pc = "fetch2"
    /\ \E r \in FetchResults :
          /\ fetch_log' = Logged(stock2, r)
          /\ IF r.kind = "raise"
             THEN /\ Finish(ErrorResponse(500, InternalMsg("fetch failed")))
                  /\ UNCHANGED df2_raw
             ELSE /\ df2_raw' = r
                  /\ pc' = "normalize2"
                  /\ UNCHANGED response
    /\ UNCHANGED <<body, stock1, stock2, period, df1_raw, df1, df2, col1, col2>>

\* Lines 38-41
Normalize2 ==
    /\ pc = "normalize2"
    /\ IF HasColumn(df2_raw)
       THEN /\ df2' \in ColumnRows(df2_raw)
            /\ col2' = SelectField(df2_raw)
            /\ pc' = "compare"
            /\ UNCHANGED response
       ELSE /\ Finish(ErrorResponse(500, InternalMsg("KeyError")))
            /\ UNCHANGED <<df2, col2>>
    /\ df2_raw' = NoTable
    /\ UNCHANGED <<body, stock1, stock2, period, df1_raw, df1, col1,
                   fetch_log>>

\* Lines 43-74
CompareSeries ==
    /\ pc = "compare"
    /\ Finish(Compare(stock1, stock2, df1, df2))
    /\ UNCHANGED <<body, stock1, stock2, period, df1_raw, df2_raw, df1, df2,
                   col1, col2, fetch_log>>

Next ==
    \/ GetJson
    \/ Validate
    \/ Fetch1
    \/ Normalize1
    \/ Fetch2
    \/ Normalize2
    \/ CompareSeries

Spec == Init /\ [][Next]_vars

\* ------------------------------------------------------------------- claims

Done == pc = "done"

Succeeded == Done /\ response.kind = "success"

IsError(status) ==
    Done /\ response.kind = "error" /\ response.status = status

\* The request lacks a ticker or the period, or names no valid period.
Rejectable ==
    \/ Falsy(body.stock1)
    \/ Falsy(body.stock2)
    \/ Falsy(body.period)
    \/ body.period \notin valid_periods

SomeFetch(outcomes) ==
    \E i \in 1 .. Len(fetch_log) : fetch_log[i].outcome \in outcomes

\* C1: a request in which stock1, stock2 or period is absent or empty, or
\* whose period is outside the allowed set, is answered 400, and
\* yf.download is not called for it.
C1_RejectedWithoutFetch ==
    (Done /\ Rejectable) => (IsError(400) /\ fetch_log = <<>>)

\* C2: every request ends in a success structure or in an error structure
\* with status 400, 404 or 500 built by the handler; no exception leaves it.
C2_EveryRequestConverted ==
    Done => \/ response.kind = "success"
            \/ /\ response.kind = "error"
               /\ response.status \in {400, 404, 500}

\* C3: when the download for either ticker returns a table with no rows,
\* the request is answered 404, never 500 and never a success.
C3_EmptyFetchIsNotFound ==
    (Done /\ SomeFetch({"empty"})) => IsError(404)

\* Both columns were read (lines 33 and 41 were passed).
BothNormalized == col1 # Unset /\ col2 # Unset

\* The dates on which both normalized series have a price.
CommonDates ==
    {d \in DOMAIN df1 \cap DOMAIN df2 : df1[d] # NaN /\ df2[d] # NaN}

\* C4: both normalized series are non-empty and no date has a price in
\* both: the answer is 404 with the no-overlap message, and carries no
\* statistics.
C4_NoOverlapIsNotFound ==
    (/\ Done
     /\ BothNormalized
     /\ ~SeriesEmpty(df1)
     /\ ~SeriesEmpty(df2)
     /\ CommonDates = {})
    => (IsError(404) /\ response.error = NoOverlapMsg)

C4_Witness ==
    /\ IsError(404)
    /\ response.error = NoOverlapMsg
    /\ DOMAIN df1 \cap DOMAIN df2 # {}

\* n times the deviation of s[i] from the mean of s, for n = Len(s)
Dev(s, i) == Len(s) * s[i] - SumSeq(s)

DevSq(s) == SumSeq([i \in 1 .. Len(s) |-> Dev(s, i) * Dev(s, i)])

DevProd(s, t) == SumSeq([i \in 1 .. Len(s) |-> Dev(s, i) * Dev(t, i)])

\* The z-score of the last entry of s exists: two rows at least and a
\* non-zero standard deviation.
LastZDefined(s) == Len(s) >= 2 /\ DevSq(s) > 0

\* (last z)^2 - 4 has the sign of this number, when the z-score exists:
\* z = Dev / sqrt(DevSq / (n - 1)).
LastZSqMinus4(s) ==
    Dev(s, Len(s)) * Dev(s, Len(s)) * (Len(s) - 1) - 4 * DevSq(s)

LastZAbove2(s) ==
    LastZDefined(s) /\ Dev(s, Len(s)) > 0 /\ LastZSqMinus4(s) > 0

LastZBelowMinus2(s) ==
    LastZDefined(s) /\ Dev(s, Len(s)) < 0 /\ LastZSqMinus4(s) > 0

\* C5: in a success response the signal is short stock1 / long stock2
\* exactly when the z-score of the last aligned date is above 2, long
\* stock1 / short stock2 exactly when it is below -2, and none otherwise:
\* for |z| <= 2, 2.0 included, and for a z-score that does not exist.
C5_SignalFromLastZ ==
    Succeeded =>
        LET s == response.spread
        IN /\ response.signal = ShortLong(stock1, stock2) <=> LastZAbove2(s)
           /\ response.signal = LongShort(stock1, stock2)
                <=> LastZBelowMinus2(s)
           /\ response.signal = None
                <=> (~LastZAbove2(s) /\ ~LastZBelowMinus2(s))
           /\ response.signal
                \in {None, ShortLong(stock1, stock2),
                     LongShort(stock1, stock2)}

C5_Witness ==
    /\ Succeeded
    /\ response.signal = LongShort(stock1, stock2)
    /\ LastZBelowMinus2(response.spread)

\* C6: no number of a success response is NaN or infinite.
C6_NoNonFiniteNumber ==
    Succeeded =>
        /\ ~response.correlation.nan
        /\ \A i \in 1 .. Len(response.z_score) : ~response.z_score[i].nan
        /\ \A i \in 1 .. Len(response.stock1_prices) :
              response.stock1_prices[i] # NaN
        /\ \A i \in 1 .. Len(response.stock2_prices) :
              response.stock2_prices[i] # NaN

\* C7: in a success response dates holds exactly the dates with a price in
\* both normalized series, in increasing order and once each, and the two
\* price lists, spread and z_score have one entry per date: the prices of
\* that date and their difference.
C7_AlignedOnCommonDates ==
    Succeeded =>
        LET n == Cardinality(CommonDates)
        IN /\ n >= 1
           /\ Len(response.dates) = n
           /\ Len(response.stock1_prices) = n
           /\ Len(response.stock2_prices) = n
           /\ Len(response.spread) = n
           /\ Len(response.z_score) = n
           /\ {response.dates[i] : i \in 1 .. n}
                = {StrfTime(d) : d \in CommonDates}
           /\ \A i \in 1 .. n : \A j \in 1 .. n :
                 i < j => response.dates[i][3] < response.dates[j][3]
           /\ \A i \in 1 .. n :
                 LET d == response.dates[i][3]
                 IN /\ response.stock1_prices[i] = df1[d]
                    /\ response.stock2_prices[i] = df2[d]
                    /\ response.spread[i] = df1[d] - df2[d]

C7_Witness ==
    /\ Succeeded
    /\ Len(response.dates) >= 2
    /\ CommonDates # DOMAIN df1
    /\ CommonDates # DOMAIN df2
    /\ \E d \in DOMAIN df1 \cap DOMAIN df2 : df1[d] = NaN

PriceFields == {"Adj Close", "Close"}

\* What lines 30-33 (38-41) may do with table t: col is the field read,
\* read says that a series was obtained, resp is the response after them.
NormalizedAsPreferred(t, col, read, resp) ==
    /\ read => /\ col \in PriceFields \cap t.fields
               /\ col = "Adj Close" <=> "Adj Close" \in t.fields
               /\ col = "Close"
                    <=> ("Adj Close" \notin t.fields /\ "Close" \in t.fields)
    /\ (PriceFields \cap t.fields # {} /\ (t.multi => t.tickerKey)) => read
    /\ PriceFields \cap t.fields = {} => (~read /\ resp.kind = "error")

\* C9: for both tickers and both table shapes the normalizer reads the
\* adjusted-close field whenever the table has it, the close field exactly
\* when the table has close and no adjusted close, and fails the request
\* when it has neither; a success response is built from these fields only.
C9_FieldPreference ==
    [][/\ pc = "normalize1" =>
            NormalizedAsPreferred(df1_raw, col1', pc' = "fetch2", response')
       /\ pc = "normalize2" =>
            NormalizedAsPreferred(df2_raw, col2', pc' = "compare", response')
       /\ response'.kind = "success" =>
            (col1' \in PriceFields /\ col2' \in PriceFields)]_vars

C9_Witness ==
    /\ Succeeded
    /\ col1 = "Close"
    /\ col2 = "Adj Close"

FOne == Float(1, 1, 1)

\* C10: the correlation of a success response is 0.0 when there are fewer
\* than 2 aligned rows or a price column has no variance; otherwise it is
\* Pearson's r of the two columns, which lies in [-1, 1] and is 1.0 for
\* two equal columns.
C10_Correlation ==
    Succeeded =>
        LET x == response.stock1_prices
            y == response.stock2_prices
            r == response.correlation
        IN /\ ~r.nan
           /\ (Len(x) < 2 \/ DevSq(x) = 0 \/ DevSq(y) = 0) => r = FZero
           /\ (Len(x) >= 2 /\ DevSq(x) > 0 /\ DevSq(y) > 0) =>
                 /\ r.sgn = Sign(DevProd(x, y))
                 /\ r.p * DevSq(x) * DevSq(y)
                      = r.q * DevProd(x, y) * DevProd(x, y)
                 /\ r.p <= r.q
                 /\ x = y => r = FOne

C10_Witness ==
    /\ Succeeded
    /\ response.correlation.sgn = -1
    /\ response.correlation.p < response.correlation.q

\* C8: once a download has raised or returned no rows, no further download
\* is made in the request and the request ends in an error response.
C8_NoFetchAfterFailedFetch ==
    /\ \A i \in 1 .. Len(fetch_log) - 1 : fetch_log[i].outcome = "rows"
    /\ (Done /\ SomeFetch({"raise", "empty"})) => response.kind = "error"

====
